---- MODULE Spec2Model ----
(***************************************************************************)
(* Model of src/src/services/kernel_runner.py: a line-delimited execution  *)
(* kernel.  main() reads one line per request from standard input, decodes *)
(* it, runs execute_code(code, context) against the single persistent      *)
(* context and writes one response line to standard output.                *)
(*                                                                         *)
(* Submitted code is a sequence of statements of a small language whose    *)
(* statements stand for the Python statements named in Stmts below.        *)
(***************************************************************************)
EXTENDS Naturals, Sequences, FiniteSets

\* ------------------------------------------------------------------ bounds
MaxLines == 2
MaxStmts == 2

\* ------------------------------------------------------- submitted code
Names  == {"x"}
Values == {"1", "2"}

Stmt(op, name, val) == [op |-> op, name |-> name, val |-> val]

\* bind          x = 1
\* print         print('a', end='')
\* eprint        __import__('sys').stderr.write('e')
\* show          print(x, end='')        (NameError when x is unbound)
\* raise         raise ValueError / raise SystemExit
\* syntax_error  a statement the parser rejects:  def f(:
\* compile_error a statement the parser accepts and the compiler rejects
\*               after it has issued a SyntaxWarning:  if 1 is 1: break
Stmts ==
    {Stmt("bind", n, v) : n \in Names, v \in Values}
    \cup {Stmt("show", n, "-") : n \in Names}
    \cup {Stmt("print", "-", "a"), Stmt("eprint", "-", "e")}
    \cup {Stmt("raise", k, "-") : k \in {"ValueError", "SystemExit"}}
    \cup {Stmt("syntax_error", "-", "-"), Stmt("compile_error", "-", "w")}

Programs == UNION {[1..n -> Stmts] : n \in 0..MaxStmts}

\* ------------------------------------------------------------ input lines
\* kind "invalid"   : text that json.loads rejects (e.g.  not json )
\* kind "nonobject" : valid JSON that is not an object (e.g.  42 )
\* kind "object"    : a JSON object; hasCode says whether it has a "code"
\*                    field, isText whether that field is a string, extra
\*                    whether the object carries another field as well.
\* unbuildable      : "none", or the exception json.loads raises on a value
\*                    of well-formed JSON that it cannot build: ValueError
\*                    for a number of more than 4300 digits, RecursionError
\*                    for nesting beyond the recursion limit.  The value is
\*                    the line itself (nonobject), the other field (extra)
\*                    or a code field that is not text.
Line(kind, hasCode, isText, text, extra, unbuildable) ==
    [kind |-> kind, hasCode |-> hasCode, isText |-> isText,
     text |-> text, extra |-> extra, unbuildable |-> unbuildable]

NoLine == Line("none", FALSE, FALSE, << >>, FALSE, "none")

Unbuildable == {"ValueError", "RecursionError"}

\* The other field of an object, when present, and what it does to json.loads.
Extras ==
    {<<FALSE, "none">>} \cup {<<TRUE, u>> : u \in {"none"} \cup Unbuildable}

\* The programs that the input also carries next to another field.
ShortPrograms == {p \in Programs : Len(p) <= 1}

Lines ==
    {Line("invalid", FALSE, FALSE, << >>, FALSE, "none")}
    \cup {Line("nonobject", FALSE, FALSE, << >>, FALSE, u) :
              u \in {"none"} \cup Unbuildable}
    \cup {Line("object", FALSE, FALSE, << >>, x[1], x[2]) : x \in Extras}
    \cup {Line("object", TRUE, FALSE, << >>, x[1], x[2]) : x \in Extras}
    \cup {Line("object", TRUE, FALSE, << >>, FALSE, u) : u \in Unbuildable}
    \cup {Line("object", TRUE, TRUE, p, FALSE, "none") : p \in Programs}
    \cup {Line("object", TRUE, TRUE, p, TRUE, x[2]) :
              p \in ShortPrograms, x \in Extras}

\* json.loads(line): raises JSONDecodeError on text that is not JSON, and
\* ValueError or RecursionError on JSON holding a value it cannot build.
json_loads(l) ==
    IF l.kind = "invalid"
    THEN [exc |-> "JSONDecodeError", value |-> NoLine]
    ELSE IF l.unbuildable # "none"
         THEN [exc |-> l.unbuildable, value |-> NoLine]
         ELSE [exc |-> "none", value |-> l]

CodeVal(isText, text) == [isText |-> isText, text |-> text]
NoCode == CodeVal(TRUE, << >>)

\* Variant: request.get("code") without the default, so that an absent field
\* yields None, which is not text.
request_get_nodefault(v) ==
    IF v.kind # "object"
    THEN [exc |-> "AttributeError", code |-> NoCode]
    ELSE [exc |-> "none", code |-> CodeVal(v.hasCode /\ v.isText, v.text)]

\* request.get("code", ""): AttributeError when the decoded value is not a
\* dict; the default "" when the key is absent; the value otherwise.
request_get(v) ==
    IF v.kind # "object"
    THEN [exc |-> "AttributeError", code |-> NoCode]
    ELSE IF v.hasCode
         THEN [exc |-> "none", code |-> CodeVal(v.isText, v.text)]
         ELSE [exc |-> "none", code |-> NoCode]

\* What lines 46-47 raise on the line l: the exception of json.loads, else
\* that of request.get, else "none".
DecodeError(l) ==
    IF json_loads(l).exc # "none"
    THEN json_loads(l).exc
    ELSE request_get(json_loads(l).value).exc

\* ---------------------------------------------------------------- context
\* The context dict is the set of its (key, value) items.
EmptyContext == {}
Builtins == <<"__builtins__", "module">>

Bound(ctx, n) == \E p \in ctx : p[1] = n
Lookup(ctx, n) == (CHOOSE p \in ctx : p[1] = n)[2]
Bind(ctx, n, v) == {p \in ctx : p[1] # n} \cup {<<n, v>>}

\* exec(compiled_code, context) inserts __builtins__ when the key is absent.
exec_enter(ctx) ==
    IF Bound(ctx, "__builtins__") THEN ctx ELSE ctx \cup {Builtins}

\* Variant: the code is coerced to text first (compile(str(code), ...)), so a
\* value that is not text compiles.
compile_coerce(c) ==
    IF \E i \in 1..Len(c.text) :
           c.text[i].op \in {"syntax_error", "compile_error"}
    THEN "SyntaxError"
    ELSE "none"

\* The statements of a unit that the parser, or the compiler, rejects.
Rejected(text, op) == SelectSeq(text, LAMBDA s : s.op = op)

\* compile(code, "<string>", "exec"): TypeError for a value that is not
\* text, SyntaxError when the parser or the compiler rejects a statement of
\* the unit.
compile(c) ==
    IF ~c.isText THEN "TypeError"
    ELSE IF \/ Rejected(c.text, "syntax_error") # << >>
            \/ Rejected(c.text, "compile_error") # << >>
         THEN "SyntaxError"
         ELSE "none"

\* What compile writes to sys.stderr: the parser comes first and issues no
\* warning; the compiler stops at the first statement it rejects, after the
\* warning about it.
compile_warnings(c) ==
    IF ~c.isText \/ Rejected(c.text, "syntax_error") # << >>
    THEN << >>
    ELSE IF Rejected(c.text, "compile_error") # << >>
         THEN <<Head(Rejected(c.text, "compile_error")).val>>
         ELSE << >>

\* --------------------------------------------------------------- response
\* Variant: the handler drops the diagnostic (traceback.print_exc() returns
\* None), so error is null whatever happened.
Response_noerror(o, e, err) == [stdout |-> o, stderr |-> e, error |-> "null"]

\* The dict returned by execute_code.
Response(o, e, err) == [stdout |-> o, stderr |-> e, error |-> err]
NoResponse == Response(<< >>, << >>, "none")

\* json.dumps(response) + "\n"
json_dumps(r) == <<"response", r.stdout, r.stderr, r.error>>

\* An unframed write of text t to a real stream.
Raw(t) == <<"raw", t>>

\* f"Fatal Kernel Error: {e}\n"
FatalMessage(e) == <<"Fatal Kernel Error", e>>

\* What a device holds of the line l when it took the first bytes of it only
\* (a short write: file size limit reached, no space left on the device, the
\* reader of a pipe gone after its first bytes).
Cut(l) == <<"cut">> \o Tail(l)

\* The bytes of l that the device did not take, still in the stream's buffer.
Rest(l) == <<"rest">> \o Tail(l)

\* ------------------------------------------------------------------ state
VARIABLES
    pc,              \* position of main's loop
    nread,           \* number of lines returned by readline so far
    line,            \* main: line
    code,            \* main: code / execute_code: code
    context,         \* main: context
    ip,              \* execute_code: 0 before compile, else next statement
    sys_stdout,      \* sys.stdout: "real" or "capture"
    sys_stderr,      \* sys.stderr: "real" or "capture"
    stdout_capture,  \* execute_code: stdout_capture
    stderr_capture,  \* execute_code: stderr_capture
    response,        \* main: response
    outbuf,          \* real stdout: written, not yet flushed
    out,             \* real stdout: flushed to the caller
    err,             \* real stderr
    ndecoded,        \* history: requests decoded so far
    answered,        \* history: for each response line, the request it answers
    entry_context,   \* history: the context when the current request was decoded
    last_bound,      \* history: per name, the value an assignment last gave it
    raised_at        \* history: the call of main in which the exception that
                     \* stopped the loop arose ("readline" 42, "decode" 46-47,
                     \* "exec" 49, "write" 51-52), "none" while it runs

vars == <<pc, nread, line, code, context, ip, sys_stdout, sys_stderr,
          stdout_capture, stderr_capture, response, outbuf, out, err,
          ndecoded, answered, entry_context, last_bound, raised_at>>

Init ==
    /\ pc = "WAIT_FOR_LINE"
    /\ nread = 0
    /\ line = NoLine
    /\ code = NoCode
    /\ context = EmptyContext
    /\ ip = 0
    /\ sys_stdout = "real"
    /\ sys_stderr = "real"
    /\ stdout_capture = << >>
    /\ stderr_capture = << >>
    /\ response = NoResponse
    /\ outbuf = << >>
    /\ out = << >>
    /\ err = << >>
    /\ ndecoded = 0
    /\ answered = << >>
    /\ entry_context = EmptyContext
    /\ last_bound = [n \in Names |-> "unbound"]
    /\ raised_at = "none"

\* ---------------------------------------------------------------- helpers
\* except Exception: catches every exception class deriving from Exception;
\* SystemExit derives from BaseException only.
except_Exception(kind) == kind \notin {"SystemExit"}

\* Variant: one buffer per stream is created once and shared by all calls.
StringIO_shared(previous) == previous

\* io.StringIO(): each call of execute_code creates its own empty buffer,
\* whatever the buffer of the previous call held.
StringIO(previous) == << >>

\* sys.stdout.write(text): the text joins the stream's pending output.
write(buf, item) == Append(buf, item)

\* sys.stdout.flush(): everything pending reaches the reader of the stream.
flush(buf, flushed) == [out |-> flushed \o buf, outbuf |-> << >>]

\* Variant: the handler puts back the context saved at entry.
context_rollback(ctx, entry) == entry

\* except Exception: error = traceback.format_exc() -- the handler touches
\* nothing but error, so the context stays as the failing code left it.
context_after_except(ctx, entry) == ctx

\* The locals of one iteration, dead once the iteration is over or main is
\* left.
ResetIteration ==
    /\ line' = NoLine
    /\ code' = NoCode
    /\ ip' = 0
    /\ response' = NoResponse

\* Variant: the streams are redirected by assignment and never put back.
RestoreStreams_never == UNCHANGED <<sys_stdout, sys_stderr>>

\* Leaving the with block, normally or by an exception, restores both streams.
RestoreStreams ==
    /\ sys_stdout' = "real"
    /\ sys_stderr' = "real"

\* The submitted code raised an exception of class kind.  except Exception
\* turns it into the error of a response built from the buffers as they
\* stand; any other class leaves execute_code and main.
Raise(kind) ==
    /\ RestoreStreams
    /\ IF except_Exception(kind)
       THEN /\ context' = context_after_except(context, entry_context)
            /\ response' = Response(stdout_capture, stderr_capture, kind)
            /\ pc' = "ENCODE_AND_FLUSH"
            /\ UNCHANGED <<line, code, ip, raised_at>>
       ELSE /\ pc' = "ABORT"
            /\ raised_at' = "exec"
            /\ ResetIteration
            /\ UNCHANGED context

\* The text t is written to sys.stdout, wherever it points.
WriteStdout(t) ==
    IF sys_stdout = "capture"
    THEN /\ stdout_capture' = Append(stdout_capture, t)
         /\ UNCHANGED outbuf
    ELSE /\ outbuf' = write(outbuf, Raw(t))
         /\ UNCHANGED stdout_capture

\* The text t is written to sys.stderr, wherever it points.
WriteStderr(t) ==
    IF sys_stderr = "capture"
    THEN /\ stderr_capture' = Append(stderr_capture, t)
         /\ UNCHANGED err
    ELSE /\ err' = Append(err, Raw(t))
         /\ UNCHANGED stderr_capture

\* sys.stderr.write(f"Fatal Kernel Error: {e}\n") returned, wherever
\* sys.stderr points.  On the real stream, when it is unbuffered (python -u),
\* the text layer does not look at what the device took: a short write
\* raises nothing and leaves the diagnostic cut, and a write that a full
\* non-blocking descriptor turned down (EAGAIN) leaves nothing of it.
WriteFatal(e) ==
    IF sys_stderr = "real"
    THEN /\ \/ err' = Append(err, FatalMessage(e))
            \/ err' = Append(err, Cut(FatalMessage(e)))
            \/ err' = err
         /\ UNCHANGED stderr_capture
    ELSE /\ stderr_capture' = Append(stderr_capture, FatalMessage(e))
         /\ UNCHANGED err

\* except Exception as e (lines 56-59), for an exception e that arose in the
\* call at: the write of the diagnostic returns, with all, part or nothing
\* of it on the stream, and the loop stops (break), so main returns.  The
\* write of line 58 is inside the handler: when it raises on
\* the real sys.stderr (OSError on a full device, AttributeError when
\* sys.stderr is None) break is not reached and the exception of the write
\* leaves main, with nothing of the diagnostic on the stream or, when the
\* buffered stream got its first bytes out before the device refused the
\* rest, with the diagnostic cut.
Handler(e, at) ==
    /\ raised_at' = at
    /\ ResetIteration
    /\ \/ /\ WriteFatal(e)
          /\ pc' = "FATAL"
       \/ /\ sys_stderr = "real"
          /\ \/ err' = err
             \/ err' = Append(err, Cut(FatalMessage(e)))
          /\ UNCHANGED stderr_capture
          /\ pc' = "ABORT"

\* ---------------------------------------------------------------- actions
\* line = sys.stdin.readline(), a non-empty line.
ReadLine ==
    /\ pc = "WAIT_FOR_LINE"
    /\ nread < MaxLines
    /\ \E l \in Lines : line' = l
    /\ nread' = nread + 1
    /\ pc' = "DECODE"
    /\ UNCHANGED <<code, context, ip, sys_stdout, sys_stderr, stdout_capture,
                   stderr_capture, response, outbuf, out, err, ndecoded,
                   answered, entry_context, last_bound, raised_at>>

\* Variant: end of input is raised as an error, which the general handler
\* reports before the loop stops.
EndOfStream_reported ==
    /\ pc = "WAIT_FOR_LINE"
    /\ pc' = "DONE"
    /\ err' = Append(err, FatalMessage("EOFError"))
    /\ UNCHANGED <<nread, line, code, context, ip, sys_stdout, sys_stderr,
                   stdout_capture, stderr_capture, response, outbuf, out,
                   ndecoded, answered, entry_context, last_bound, raised_at>>

\* readline returned "": if not line: break
EndOfStream ==
    /\ pc = "WAIT_FOR_LINE"
    /\ pc' = "DONE"
    /\ UNCHANGED <<nread, line, code, context, ip, sys_stdout, sys_stderr,
                   stdout_capture, stderr_capture, response, outbuf, out, err,
                   ndecoded, answered, entry_context, last_bound, raised_at>>

\* What readline can raise: UnicodeDecodeError on bytes that the strict
\* decoder of sys.stdin rejects; OSError when the descriptor cannot be read;
\* AttributeError when sys.stdin is None, which it then is from the start.
ReadErrors(n) ==
    {"UnicodeDecodeError", "OSError"}
    \cup (IF n = 0 THEN {"AttributeError"} ELSE {})

\* sys.stdin.readline() raised and the handler of lines 56-59 ran.  No line
\* was returned.
ReadLineFatal ==
    /\ pc = "WAIT_FOR_LINE"
    /\ nread < MaxLines
    /\ \E e \in ReadErrors(nread) : Handler(e, "readline")
    /\ UNCHANGED <<nread, context, sys_stdout, sys_stderr, stdout_capture,
                   outbuf, out, ndecoded, answered, entry_context, last_bound>>

\* json.loads raised JSONDecodeError: except json.JSONDecodeError: continue
DecodeSkip ==
    /\ pc = "DECODE"
    /\ DecodeError(line) = "JSONDecodeError"
    /\ pc' = "WAIT_FOR_LINE"
    /\ line' = NoLine
    /\ UNCHANGED <<nread, code, context, ip, sys_stdout, sys_stderr,
                   stdout_capture, stderr_capture, response, outbuf, out, err,
                   ndecoded, answered, entry_context, last_bound, raised_at>>

\* json.loads raised an exception other than JSONDecodeError, or request.get
\* raised, and the handler of lines 56-59 ran.
DecodeFatal ==
    /\ pc = "DECODE"
    /\ DecodeError(line) \notin {"none", "JSONDecodeError"}
    /\ Handler(DecodeError(line), "decode")
    /\ UNCHANGED <<nread, context, sys_stdout, sys_stderr, stdout_capture,
                   outbuf, out, ndecoded, answered, entry_context, last_bound>>

\* Variant: context = {} sits inside the loop, each request gets a new one.
DecodeRequest_fresh ==
    /\ pc = "DECODE"
    /\ DecodeError(line) = "none"
    /\ code' = request_get(json_loads(line).value).code
    /\ pc' = "EXECUTE"
    /\ ip' = 0
    /\ ndecoded' = ndecoded + 1
    /\ context' = EmptyContext
    /\ entry_context' = EmptyContext
    /\ UNCHANGED <<nread, line, sys_stdout, sys_stderr, stdout_capture,
                   stderr_capture, response, outbuf, out, err, answered,
                   last_bound, raised_at>>

\* json.loads and request.get succeeded: execute_code(code, context) is called
\* with the context of main.
DecodeRequest ==
    /\ pc = "DECODE"
    /\ DecodeError(line) = "none"
    /\ code' = request_get(json_loads(line).value).code
    /\ pc' = "EXECUTE"
    /\ ip' = 0
    /\ ndecoded' = ndecoded + 1
    /\ entry_context' = context
    /\ UNCHANGED <<nread, line, context, sys_stdout, sys_stderr,
                   stdout_capture, stderr_capture, response, outbuf, out, err,
                   answered, last_bound, raised_at>>

\* Variant: the namespace is prepared for exec before the code is compiled.
Compile_prepares_first ==
    /\ pc = "EXECUTE"
    /\ ip = 0
    /\ stdout_capture' = StringIO(stdout_capture)
    /\ stderr_capture' = StringIO(stderr_capture) \o compile_warnings(code)
    /\ context' = exec_enter(context)
    /\ IF compile(code) # "none"
       THEN /\ RestoreStreams
            /\ response' = Response(stdout_capture', stderr_capture',
                                    compile(code))
            /\ pc' = "ENCODE_AND_FLUSH"
            /\ UNCHANGED ip
       ELSE /\ sys_stdout' = "capture"
            /\ sys_stderr' = "capture"
            /\ ip' = 1
            /\ UNCHANGED <<pc, response>>
    /\ UNCHANGED <<nread, line, code, outbuf, out, err, ndecoded, answered,
                   entry_context, last_bound, raised_at>>

\* execute_code lines 11-21 up to the start of exec: fresh buffers, both
\* streams redirected, compile, whose warnings go to the redirected
\* sys.stderr.  A compile failure leaves the with block and is caught;
\* otherwise exec starts on the context.
Compile ==
    /\ pc = "EXECUTE"
    /\ ip = 0
    /\ stdout_capture' = StringIO(stdout_capture)
    /\ stderr_capture' = StringIO(stderr_capture) \o compile_warnings(code)
    /\ IF compile(code) # "none"
       THEN /\ RestoreStreams
            /\ context' = context_after_except(context, entry_context)
            /\ response' = Response(stdout_capture', stderr_capture',
                                    compile(code))
            /\ pc' = "ENCODE_AND_FLUSH"
            /\ UNCHANGED ip
       ELSE /\ sys_stdout' = "capture"
            /\ sys_stderr' = "capture"
            /\ context' = exec_enter(context)
            /\ ip' = 1
            /\ UNCHANGED <<pc, response>>
    /\ UNCHANGED <<nread, line, code, outbuf, out, err, ndecoded, answered,
                   entry_context, last_bound, raised_at>>

\* exec runs the next statement of the compiled code.
ExecStmt ==
    /\ pc = "EXECUTE"
    /\ ip \in 1..Len(code.text)
    /\ LET s == code.text[ip] IN
         CASE s.op = "bind" ->
                /\ context' = Bind(context, s.name, s.val)
                /\ last_bound' = [last_bound EXCEPT ![s.name] = s.val]
                /\ ip' = ip + 1
                /\ UNCHANGED <<pc, line, code, sys_stdout, sys_stderr,
                               stdout_capture, stderr_capture, response,
                               outbuf, err, raised_at>>
           [] s.op = "print" ->
                /\ WriteStdout(s.val)
                /\ ip' = ip + 1
                /\ UNCHANGED <<pc, line, code, context, sys_stdout,
                               sys_stderr, stderr_capture, response, err,
                               last_bound, raised_at>>
           [] s.op = "eprint" ->
                /\ WriteStderr(s.val)
                /\ ip' = ip + 1
                /\ UNCHANGED <<pc, line, code, context, sys_stdout,
                               sys_stderr, stdout_capture, response, outbuf,
                               last_bound, raised_at>>
           [] s.op = "show" /\ Bound(context, s.name) ->
                /\ WriteStdout(Lookup(context, s.name))
                /\ ip' = ip + 1
                /\ UNCHANGED <<pc, line, code, context, sys_stdout,
                               sys_stderr, stderr_capture, response, err,
                               last_bound, raised_at>>
           [] s.op = "show" /\ ~Bound(context, s.name) ->
                /\ Raise("NameError")
                /\ UNCHANGED <<stdout_capture, stderr_capture, outbuf, err,
                               last_bound>>
           [] s.op = "raise" ->
                /\ Raise(s.name)
                /\ UNCHANGED <<stdout_capture, stderr_capture, outbuf, err,
                               last_bound>>
    /\ UNCHANGED <<nread, out, ndecoded, answered, entry_context>>

\* exec ran off the end of the code: the with block is left normally and the
\* response is returned with error None.
Return ==
    /\ pc = "EXECUTE"
    /\ ip = Len(code.text) + 1
    /\ RestoreStreams
    /\ response' = Response(stdout_capture, stderr_capture, "null")
    /\ pc' = "ENCODE_AND_FLUSH"
    /\ UNCHANGED <<nread, line, code, context, ip, stdout_capture,
                   stderr_capture, outbuf, out, err, ndecoded, answered,
                   entry_context, last_bound, raised_at>>

\* sys.stdout.write(json.dumps(response) + "\n"); sys.stdout.flush()
\* returned, on whatever sys.stdout points to.  On the real stream the line
\* reaches the reader whole; or, when the stream is unbuffered (python -u),
\* the text layer does not look at what the device took: a short write
\* raises nothing and leaves the line cut, a write that a full non-blocking
\* descriptor turned down (EAGAIN) leaves nothing of it, and in both cases
\* the loop goes on.  What the device does with one write says nothing
\* about the next (the file is truncated, the pipe drained).
WriteResponse ==
    /\ pc = "ENCODE_AND_FLUSH"
    /\ IF sys_stdout = "real"
       THEN /\ \/ LET f == flush(write(outbuf, json_dumps(response)), out) IN
                    /\ out' = f.out
                    /\ outbuf' = f.outbuf
                    /\ answered' = Append(answered, ndecoded)
               \/ /\ out' = Append(out, Cut(json_dumps(response)))
                  /\ answered' = Append(answered, ndecoded)
                  /\ UNCHANGED outbuf
               \/ UNCHANGED <<out, outbuf, answered>>
            /\ UNCHANGED stdout_capture
       ELSE /\ stdout_capture' = Append(stdout_capture, json_dumps(response))
            /\ UNCHANGED <<out, outbuf, answered>>
    /\ pc' = "WAIT_FOR_LINE"
    /\ ResetIteration
    /\ UNCHANGED <<nread, context, sys_stdout, sys_stderr, stderr_capture,
                   err, ndecoded, entry_context, last_bound, raised_at>>

\* What sys.stdout.write (line 51) can raise on the real stream:
\* BrokenPipeError when the reader has gone, OSError when the device is full;
\* AttributeError when sys.stdout is None, which it then is from the start,
\* so that this is the first request decoded and nothing was written.
WriteErrors(first) ==
    {"BrokenPipeError", "OSError"}
        \cup (IF first THEN {"AttributeError"} ELSE {})

\* What sys.stdout.flush (line 52) can raise on the real stream.
FlushErrors == {"BrokenPipeError", "OSError"}

\* sys.stdout.write (line 51) or sys.stdout.flush (line 52) raised on the
\* real stream and the handler of lines 56-59 ran.  Which of the two calls
\* fails depends on the buffering of the stream; when it is flush, the line
\* has been written and stays pending, whole or, when the device took its
\* first bytes before it refused the rest, without those bytes.
WriteResponseFatal ==
    /\ pc = "ENCODE_AND_FLUSH"
    /\ sys_stdout = "real"
    /\ \/ /\ \E e \in WriteErrors(out = << >> /\ ndecoded = 1) :
                Handler(e, "write")
          /\ UNCHANGED <<outbuf, out, answered>>
       \/ /\ \E e \in FlushErrors : Handler(e, "write")
          /\ outbuf' = write(outbuf, json_dumps(response))
          /\ UNCHANGED <<out, answered>>
       \/ /\ \E e \in FlushErrors : Handler(e, "write")
          /\ out' = Append(out, Cut(json_dumps(response)))
          /\ outbuf' = write(outbuf, Rest(json_dumps(response)))
          /\ answered' = Append(answered, ndecoded)
    /\ UNCHANGED <<nread, context, sys_stdout, sys_stderr, stdout_capture,
                   ndecoded, entry_context, last_bound>>

Next ==
    \/ ReadLine
    \/ ReadLineFatal
    \/ EndOfStream
    \/ DecodeSkip
    \/ DecodeFatal
    \/ DecodeRequest
    \/ Compile
    \/ ExecStmt
    \/ Return
    \/ WriteResponse
    \/ WriteResponseFatal

Spec == Init /\ [][Next]_vars

TypeOK ==
    /\ pc \in {"WAIT_FOR_LINE", "DECODE", "EXECUTE", "ENCODE_AND_FLUSH",
               "DONE", "FATAL", "ABORT"}
    /\ nread \in 0..MaxLines
    /\ ip \in 0..(MaxStmts + 1)
    /\ sys_stdout \in {"real", "capture"}
    /\ sys_stderr \in {"real", "capture"}
    /\ raised_at \in {"none", "readline", "decode", "exec", "write"}

\* ------------------------------------------------- reference semantics
\* What exec(compiled_code, ctx) does as a whole: the context, the text
\* written to sys.stdout and sys.stderr, and the exception that stopped it
\* (raised, with at = the index of the raising statement), if any.
RECURSIVE exec_from(_, _, _)
exec_from(stmts, i, st) ==
    IF i > Len(stmts) THEN st
    ELSE LET s == stmts[i] IN
         CASE s.op = "bind" ->
                exec_from(stmts, i + 1,
                          [st EXCEPT !.context = Bind(@, s.name, s.val)])
           [] s.op = "print" ->
                exec_from(stmts, i + 1,
                          [st EXCEPT !.stdout = Append(@, s.val)])
           [] s.op = "eprint" ->
                exec_from(stmts, i + 1,
                          [st EXCEPT !.stderr = Append(@, s.val)])
           [] s.op = "show" /\ Bound(st.context, s.name) ->
                exec_from(stmts, i + 1,
                          [st EXCEPT !.stdout =
                                        Append(@, Lookup(st.context, s.name))])
           [] s.op = "show" /\ ~Bound(st.context, s.name) ->
                [st EXCEPT !.raised = "NameError", !.at = i]
           [] s.op = "raise" ->
                [st EXCEPT !.raised = s.name, !.at = i]

exec_result(stmts, ctx) ==
    exec_from(stmts, 1, [context |-> exec_enter(ctx), stdout |-> << >>,
                         stderr |-> << >>, raised |-> "none", at |-> 0])

\* The code of the current request fails at one of the two stages.
CodeFails ==
    \/ compile(code) # "none"
    \/ exec_result(code.text, entry_context).raised # "none"

\* The current request's code compiled and then raised while running.
RuntimeFailure ==
    /\ compile(code) = "none"
    /\ exec_result(code.text, entry_context).raised # "none"

\* A request is in flight: decoded, its response not yet written.
InFlight == pc \in {"EXECUTE", "ENCODE_AND_FLUSH"}

\* The loop has stopped for good.
Terminated == pc \in {"DONE", "FATAL", "ABORT"}

\* The loop stopped at lines 51-52: the output stream refused the response
\* of the last decoded request.
WriteFailed == raised_at = "write"

\* ------------------------------------------------------------------ C1
\* C1: every line that decodes as a request produces exactly one response
\* line, the k-th response answers the k-th decoded request, and nothing else
\* is ever written to the output stream: outside of the request in flight,
\* and as long as the output stream takes what is written to it, there are
\* as many response lines as decoded requests.
C1_OneResponsePerRequest ==
    /\ \A k \in 1..Len(out) : out[k][1] = "response" /\ answered[k] = k
    /\ Len(answered) = Len(out)
    /\ ~WriteFailed
          => Len(out) = IF InFlight THEN ndecoded - 1 ELSE ndecoded

\* ------------------------------------------------------------------ C2
\* C2: a failure of the submitted code, whatever the exception, never ends
\* the process: the call returns a response with a non-null error and the
\* loop goes on.
C2_CodeFailureNeverTerminates ==
    /\ raised_at # "exec"
    /\ (pc = "ENCODE_AND_FLUSH" /\ CodeFails) => response.error # "null"

\* ------------------------------------------------------------------ C3
\* C3: a line that is not a request object (unparseable, or parsed to a value
\* that is not an object) is skipped: the loop returns to waiting for a line
\* and neither stream nor the context changes.
IsRequestObject(l) == l.kind = "object"

C3_MalformedLineSkipped ==
    [][(pc = "DECODE" /\ ~IsRequestObject(line))
          => /\ pc' = "WAIT_FOR_LINE"
             /\ UNCHANGED <<out, outbuf, err, context>>]_vars

\* ------------------------------------------------------------------ C4
\* C4: a name bound by the code of a request keeps, in the context, the
\* value last bound to it, in every later state of the process: between
\* requests, when the next request is decoded and while later code runs.
C4_BindingsPersist ==
    \A n \in Names :
        last_bound[n] # "unbound"
            => Bound(context, n) /\ Lookup(context, n) = last_bound[n]

\* A later request reads, and prints, a value that an earlier one bound.
C4_Witness ==
    /\ pc = "ENCODE_AND_FLUSH"
    /\ ndecoded >= 2
    /\ code.text = <<Stmt("show", "x", "-")>>
    /\ response.stdout = <<"2">>
    /\ response.error = "null"

\* ------------------------------------------------------------------ C5
\* C5: when code that compiled raises while running, the context after the
\* call is the context at the failure point: the entry context with every
\* binding of the statements before the raising one applied.
C5_NoRollbackOnFailure ==
    (pc = "ENCODE_AND_FLUSH" /\ RuntimeFailure)
        => context = exec_result(code.text, entry_context).context

\* A call that bound a name and then failed has returned.
C5_Witness ==
    /\ pc = "ENCODE_AND_FLUSH"
    /\ RuntimeFailure
    /\ Bound(context, "x")
    /\ ~Bound(entry_context, "x")

\* ------------------------------------------------------------------ C6
\* C6: the response of code that raised while running carries exactly the
\* text written to each stream before the raising statement, in order, and a
\* non-null error; no call ends with captured text that no response carries.
C6_PartialOutputPreserved ==
    /\ (pc = "ENCODE_AND_FLUSH" /\ RuntimeFailure)
          => /\ response.stdout = exec_result(code.text, entry_context).stdout
             /\ response.stderr = exec_result(code.text, entry_context).stderr
             /\ response.error # "null"
    /\ (raised_at = "exec")
          => (stdout_capture = << >> /\ stderr_capture = << >>)

\* ------------------------------------------------------------------ C7
AfterSyntaxFailure ==
    Len(out) >= 1 /\ out[Len(out)][4] = "SyntaxError"

\* C7 as stated: code with a syntax error gets a response with empty stdout,
\* empty stderr and a non-null error, and leaves the context as it was at
\* entry (nothing ran); a following request whose code is valid is executed
\* in full against that context and answered without error.
C7_SyntaxFailureIsolated ==
    /\ (pc = "ENCODE_AND_FLUSH" /\ compile(code) = "SyntaxError")
          => /\ response.stdout = << >>
             /\ response.stderr = << >>
             /\ response.error # "null"
             /\ context = entry_context
    /\ (pc = "ENCODE_AND_FLUSH" /\ AfterSyntaxFailure /\ ~CodeFails)
          => /\ response.error = "null"
             /\ response.stdout = exec_result(code.text, entry_context).stdout
             /\ context = exec_result(code.text, entry_context).context

\* C7 amended: code that fails to compile gets a response with empty
\* stdout, a stderr holding the warnings the compiler issued before it gave
\* up and nothing else, and a non-null error, and leaves the context as it
\* was at entry; a following request whose code is valid is executed in full
\* against that context and answered without error.
C7_SyntaxFailureWarningsOnly ==
    /\ (pc = "ENCODE_AND_FLUSH" /\ compile(code) = "SyntaxError")
          => /\ response.stdout = << >>
             /\ response.stderr = compile_warnings(code)
             /\ response.error # "null"
             /\ context = entry_context
    /\ (pc = "ENCODE_AND_FLUSH" /\ AfterSyntaxFailure /\ ~CodeFails)
          => /\ response.error = "null"
             /\ response.stdout = exec_result(code.text, entry_context).stdout
             /\ context = exec_result(code.text, entry_context).context

\* Code that the compiler rejected after a warning, then x = 1; print(x)
\* answered with 1.
C7_Witness ==
    /\ pc = "ENCODE_AND_FLUSH"
    /\ AfterSyntaxFailure
    /\ out[Len(out)][3] = <<"w">>
    /\ code.text = <<Stmt("bind", "x", "1"), Stmt("show", "x", "-")>>
    /\ response.stdout = <<"1">>
    /\ response.error = "null"

\* ------------------------------------------------------------------ C8
\* The request of the current line has empty code: "" or no code field.
EmptyRequest ==
    /\ line.kind = "object"
    /\ ~line.hasCode \/ (line.isText /\ line.text = << >>)

\* C8 as stated: empty code yields the empty response and leaves the
\* context exactly as it was before the request.
C8_EmptyCodeNoOp ==
    (pc = "ENCODE_AND_FLUSH" /\ EmptyRequest)
        => /\ response.stdout = << >>
           /\ response.stderr = << >>
           /\ response.error = "null"
           /\ context = entry_context

\* C8 amended: empty code yields the empty response and leaves every item
\* of the context as it was, except that the __builtins__ item is in the
\* context afterwards (it is added when the context did not hold it).
C8_EmptyCodeAddsOnlyBuiltins ==
    (pc = "ENCODE_AND_FLUSH" /\ EmptyRequest)
        => /\ response.stdout = << >>
           /\ response.stderr = << >>
           /\ response.error = "null"
           /\ context = entry_context \cup {Builtins}

\* A request without a code field, answered in a session that bound x.
C8_Witness ==
    /\ pc = "ENCODE_AND_FLUSH"
    /\ EmptyRequest
    /\ ~line.hasCode
    /\ Bound(entry_context, "x")

\* ------------------------------------------------------------------ C9
\* The stream holds whole response lines and nothing else.
OnlyResponseLines(stream) ==
    \A k \in 1..Len(stream) : stream[k][1] = "response"

\* C9: whenever a line is read, every request decoded before has its
\* response line, whole, on the output stream and nothing is pending in the
\* stream's buffer; at most one decoded request is without response.
C9_StrictlySequential ==
    [][/\ ndecoded' <= Len(out') + 1
       /\ (nread' # nread)
            => /\ Len(out) = ndecoded
               /\ OnlyResponseLines(out)
               /\ outbuf = << >>]_vars

\* ------------------------------------------------------------------ C10
\* C10: the error of a response is null exactly when the request's code
\* neither failed to compile nor raised while running; otherwise it is the
\* diagnostic of the exception.
Diagnostics == {"SyntaxError", "TypeError", "NameError", "ValueError"}

C10_ErrorNullIffNoFailure ==
    pc = "ENCODE_AND_FLUSH"
        => /\ (response.error = "null") <=> ~CodeFails
           /\ response.error \in Diagnostics \cup {"null"}

\* A session with a failed response behind it and a successful one at hand.
C10_Witness ==
    /\ pc = "ENCODE_AND_FLUSH"
    /\ response.error = "null"
    /\ response.stdout # << >>
    /\ \E k \in 1..Len(out) : out[k][4] \in Diagnostics

\* ------------------------------------------------------------------ C11
\* The decoded value made the loop itself raise: neither a decode failure
\* nor an error of submitted code.
LoopDefect == DecodeError(line) \notin {"none", "JSONDecodeError"}

\* C11: a loop defect puts the loop in FATAL; every step in which the
\* handler runs, after a failure of reading, decoding or writing, appends
\* exactly one diagnostic to the error stream, ends in FATAL and leaves the
\* lines read, the responses delivered and the context alone; once the loop
\* has stopped nothing is read, written or modified any more.
C11_FatalDefectStops ==
    [][/\ (pc = "DECODE" /\ LoopDefect) => pc' = "FATAL"
       /\ (pc' # pc /\ pc' \in {"FATAL", "ABORT"} /\ raised_at' # "exec")
            => /\ pc \in {"WAIT_FOR_LINE", "DECODE", "ENCODE_AND_FLUSH"}
               /\ pc' = "FATAL"
               /\ Len(err') = Len(err) + 1
               /\ SubSeq(err', 1, Len(err)) = err
               /\ err'[Len(err')][1] = "Fatal Kernel Error"
               /\ UNCHANGED <<nread, out, context>>
       /\ (pc = "FATAL")
            => UNCHANGED <<pc, nread, out, outbuf, err, context>>]_vars

\* ------------------------------------------------------------------ C12
\* C12: the loop enters DONE only from WAIT_FOR_LINE, by a step that reads
\* no line and writes nothing to either stream; leaving WAIT_FOR_LINE without
\* a line read and without a read failure means DONE; in DONE nothing
\* changes any more.
C12_CleanEndOfInput ==
    [][/\ (pc' = "DONE" /\ pc # "DONE")
            => /\ pc = "WAIT_FOR_LINE"
               /\ UNCHANGED <<nread, out, outbuf, err, context>>
       /\ (pc = "WAIT_FOR_LINE" /\ pc' \notin {pc, "FATAL", "ABORT"}
              /\ nread' = nread)
            => pc' = "DONE"
       /\ (pc = "DONE") => UNCHANGED <<pc, nread, out, outbuf, err, context>>]_vars

\* The input ended after an answered request; the error stream is empty.
C12_Witness ==
    /\ pc = "DONE"
    /\ Len(out) >= 1
    /\ nread = ndecoded
    /\ err = << >>

\* ------------------------------------------------------------------ C13
\* What execute_code(c, ctx) returns and leaves in the context, for code
\* whose exception, if any, is one that except Exception catches.
execute_code_result(c, ctx) ==
    IF compile(c) # "none"
    THEN [stdout |-> << >>, stderr |-> compile_warnings(c),
          error |-> compile(c), context |-> ctx]
    ELSE LET r == exec_result(c.text, ctx) IN
         [stdout |-> r.stdout, stderr |-> compile_warnings(c) \o r.stderr,
          error |-> IF r.raised = "none" THEN "null" ELSE r.raised,
          context |-> r.context]

\* The request lines with the code of l: without another field, and with
\* one of each kind.
Twins(l) == {[l EXCEPT !.extra = x[1], !.unbuildable = x[2]] : x \in Extras}

\* No response: what the caller gets for a line that ends the loop.
NoResult(ctx) ==
    [stdout |-> << >>, stderr |-> << >>, error |-> "none", context |-> ctx]

\* What main obtains for the request line l from the context ctx.
LineResult(l, ctx) ==
    IF DecodeError(l) # "none"
    THEN NoResult(ctx)
    ELSE execute_code_result(request_get(json_loads(l).value).code, ctx)

SameResult(r) ==
    /\ response.stdout = r.stdout
    /\ response.stderr = r.stderr
    /\ response.error = r.error
    /\ context = r.context

\* C13: the response and the resulting context of a request are those of
\* its code run from the entry context, and they are the same for every
\* request that differs from it only by its other field.
C13_OtherFieldsIgnored ==
    (pc = "ENCODE_AND_FLUSH" /\ line.kind = "object")
        => \A t \in Twins(line) : SameResult(LineResult(t, entry_context))

\* ------------------------------------------------------------------ C14
\* C14: outside of EXECUTE, and before exec starts, sys.stdout and sys.stderr
\* are the real streams, however the call ended; no step outside of EXECUTE,
\* the write of the response line and of the fatal diagnostic included, puts
\* anything into a capture buffer.
C14_CaptureRestored ==
    /\ []((pc # "EXECUTE" \/ ip = 0)
            => (sys_stdout = "real" /\ sys_stderr = "real"))
    /\ [][(pc # "EXECUTE")
            => UNCHANGED <<stdout_capture, stderr_capture>>]_vars

\* A call that captured output and ended by an exception has returned.
C14_Witness ==
    /\ pc = "ENCODE_AND_FLUSH"
    /\ RuntimeFailure
    /\ stdout_capture # << >>
    /\ sys_stdout = "real"
    /\ sys_stderr = "real"

\* ------------------------------------------------------------------ C15
\* The stream holds fatal diagnostics, whole or cut, and nothing else.
OnlyFatalMessages(stream) ==
    \A k \in 1..Len(stream) : stream[k][1] \in {"Fatal Kernel Error", "cut"}

\* The statement that exec is about to run, if any.
Running(op) ==
    /\ pc = "EXECUTE"
    /\ ip \in 1..Len(code.text)
    /\ code.text[ip].op = op

\* C15: the real output stream holds complete response lines only and the
\* real error stream the fatal diagnostic only; no step of a call touches the
\* real
\* streams, what the code writes is appended to the buffer of its stream, and
\* the buffers are what the call returns as stdout and stderr.
C15_StreamIsolation ==
    /\ [](OnlyResponseLines(out) /\ OnlyResponseLines(outbuf)
          /\ OnlyFatalMessages(err))
    /\ [][/\ (pc = "EXECUTE") => UNCHANGED <<out, outbuf, err>>
          /\ Running("print")
               => stdout_capture' = Append(stdout_capture, code.text[ip].val)
          /\ Running("eprint")
               => stderr_capture' = Append(stderr_capture, code.text[ip].val)
          /\ (pc = "EXECUTE" /\ ip >= 1 /\ pc' = "ENCODE_AND_FLUSH")
               => (response'.stdout = stdout_capture
                   /\ response'.stderr = stderr_capture)]_vars

\* ------------------------------------------------------------------ C16
\* Every call of execute_code returned to main (none was left by an
\* exception that passes except Exception).
EveryExecutionReturns == raised_at # "exec"

\* The loop ended in DONE with every decoded request answered and flushed:
\* the output stream holds one whole response line for each of them.
DoneAllAnswered ==
    /\ pc = "DONE"
    /\ Len(out) = ndecoded
    /\ \A k \in 1..Len(out) : out[k][1] = "response"
    /\ outbuf = << >>

\* C16: on finite input, if every execution of submitted code returns, the
\* state in which the loop stops is DONE or FATAL, and DONE only with every
\* decoded request answered.
C16_StopsInDoneOrFatal ==
    (Terminated /\ EveryExecutionReturns)
        => (pc = "FATAL" \/ DoneAllAnswered)

\* ------------------------------------------------------------------ C17
\* C17 as stated: both buffers are empty when the code starts to run, and
\* the stdout and stderr of a response are exactly what the code of that
\* request writes when run from the entry context (nothing when it does not
\* compile): nothing else, and nothing of an earlier call, is in them.
C17_BuffersPerCall ==
    /\ (pc = "EXECUTE" /\ ip = 1)
          => (stdout_capture = << >> /\ stderr_capture = << >>)
    /\ (pc = "ENCODE_AND_FLUSH" /\ compile(code) # "none")
          => (response.stdout = << >> /\ response.stderr = << >>)
    /\ (pc = "ENCODE_AND_FLUSH" /\ compile(code) = "none")
          => /\ response.stdout = exec_result(code.text, entry_context).stdout
             /\ response.stderr = exec_result(code.text, entry_context).stderr

\* C17 amended: the stdout and stderr of a response are exactly what was
\* written during that request's own call, the warnings of the compiler
\* about its code followed by what the code writes when run from the entry
\* context: nothing of an earlier call is in them.
C17_BuffersHoldOwnCall ==
    /\ (pc = "EXECUTE" /\ ip = 1)
          => (stdout_capture = << >> /\ stderr_capture = compile_warnings(code))
    /\ (pc = "ENCODE_AND_FLUSH")
          => /\ response.stdout
                   = execute_code_result(code, entry_context).stdout
             /\ response.stderr
                   = execute_code_result(code, entry_context).stderr

\* After a response that carried output on both streams, code that does not
\* compile gets the compiler's warning alone.
C17_Witness ==
    /\ pc = "ENCODE_AND_FLUSH"
    /\ Len(out) = 1
    /\ out[1][2] = <<"a">>
    /\ out[1][3] = <<"e">>
    /\ response.stdout = << >>
    /\ response.stderr = <<"w">>

\* ------------------------------------------------------------------ C18
\* The current line is a request object whose code field is not text.
NonTextRequest ==
    /\ line.kind = "object"
    /\ DecodeError(line) = "none"
    /\ line.hasCode
    /\ ~line.isText

\* execute_code on a code that is not text: the step from DECODE reaches
\* EXECUTE, the step from EXECUTE returns a response with empty stdout and
\* stderr and a non-null error; the context stays as it was and nothing goes
\* to the error stream.
NonTextCodeIsCodeError ==
    /\ (pc = "DECODE" /\ NonTextRequest)
         => (pc' = "EXECUTE" /\ UNCHANGED <<err, context>>)
    /\ (pc = "EXECUTE" /\ NonTextRequest)
         => /\ pc' = "ENCODE_AND_FLUSH"
            /\ response'.stdout = << >>
            /\ response'.stderr = << >>
            /\ response'.error \in Diagnostics
            /\ context' = entry_context
            /\ UNCHANGED <<err, context>>

====
